---- MODULE Spec2Model ----
(***************************************************************************)
(* SkyCast: the flight-data collector (data_collection.py) and the        *)
(* two-stage delay predictor's training script (train.py).                *)
(*                                                                         *)
(* Python values are modelled as follows.  A dict is a TLA+ function from  *)
(* field names to values (the empty dict is <<>>); a list is a sequence;   *)
(* a scalar is a tagged record [t |-> ..], so that a dict never has the    *)
(* field "t".  Datetimes are naive local times, held as seconds.  Values   *)
(* obtained by true division are exact rationals [num, den].               *)
(***************************************************************************)
EXTENDS Integers, Sequences, FiniteSets, TLC

VARIABLES
    INDIAN_AIRPORTS,  \* the static registry, a list of [icao, coord] in iteration order
    tz,               \* UTC offset of the local zone used by datetime.fromtimestamp
    pc,               \* position of the running script
    icaoIdx,          \* collect_data: index of the airport of the current iteration
    flights,          \* collect_data: the board being processed
    flightIdx,        \* collect_data: index of the next flight of the board
    all_flights,      \* collect_data: accumulated records
    weather_cache,    \* FlightDataCollector.weather_cache
    sink,             \* the output file: list of the batches written by to_excel
    events,           \* history: board requests, pauses, airport errors
    plog,             \* history: one entry per process_flight call
    mid_in,           \* midpoint check: the pair of codes
    mid_out,          \* midpoint check: the computed midpoints
    predictor,        \* train.py: the EnhancedDelayPredictor object (attributes set so far)
    nobj,             \* train.py: number of predictor objects constructed
    ntrain,           \* train.py: number of train_models calls
    files             \* train.py: the three joblib files

vars == <<INDIAN_AIRPORTS, tz, pc, icaoIdx, flights, flightIdx, all_flights,
          weather_cache, sink, events, plog, mid_in, mid_out,
          predictor, nobj, ntrain, files>>

collectVars == <<pc, icaoIdx, flights, flightIdx, all_flights, weather_cache,
                 sink, events, plog>>
midVars == <<mid_in, mid_out>>
trainVars == <<predictor, nobj, ntrain, files>>

----------------------------------------------------------------------------
(* Bounds *)

MaxBoard == 2      \* flights on one arrivals board
MaxFlights == 2    \* flights over one collection run
MaxObjects == 2    \* predictor objects constructed
MaxTrains == 3     \* train_models calls

----------------------------------------------------------------------------
(* Python values *)

None == [t |-> "None"]
Num(n) == [t |-> "num", v |-> n]
Str(s) == [t |-> "str", v |-> s]
Raise == [t |-> "raise"]

IsDict(x) == "t" \notin DOMAIN x
IsNum(x) == ("t" \in DOMAIN x) /\ x.t = "num"
IsStr(x) == ("t" \in DOMAIN x) /\ x.t = "str"
HasKey(d, k) == IsDict(d) /\ k \in DOMAIN d
Get(d, k, default) == IF k \in DOMAIN d THEN d[k] ELSE default
Truthy(x) == IF IsDict(x) THEN DOMAIN x # {} ELSE x # None

Abs(n) == IF n < 0 THEN -n ELSE n

RECURSIVE GCD(_, _)
GCD(a, b) == IF b = 0 THEN a ELSE GCD(b, a % b)

\* the exact quotient n / d, d > 0, in lowest terms
Rat(n, d) == LET g == GCD(Abs(n), d) IN [num |-> n \div g, den |-> d \div g]

----------------------------------------------------------------------------
(* Inputs: what the registry and the three external services can hand back *)

\* registries: every entry has a code; a coordinate dict may lack a field
Registries ==
    { << [icao |-> "VIDP", coord |-> [lat |-> 28, lon |-> 77]],
         [icao |-> "VABB", coord |-> [lat |-> 19, lon |-> 72]] >>,
      << [icao |-> "VABB", coord |-> [lat |-> 19, lon |-> 72]],
         [icao |-> "VOMM", coord |-> [lat |-> 13]],
         [icao |-> "VIDP", coord |-> [lat |-> 28, lon |-> 77]] >> }

UtcOffsets == {0, 19800}

\* entries of an arrivals board: two well-formed flights (the second lands
\* later the same day and has no operator), one without actualarrivaltime, one whose
\* actualarrivaltime is a string, and one entry that is not a JSON object
BoardEntries ==
    { [ident |-> "AI101", operator |-> "AIC", aircrafttype |-> "A320",
       actualarrivaltime |-> Num(3600), estimatedarrivaltime |-> Num(3000)],
      [ident |-> "6E202",
       actualarrivaltime |-> Num(7230), estimatedarrivaltime |-> Num(6300)],
      [ident |-> "SG303", estimatedarrivaltime |-> Num(3000)],
      [ident |-> "UK404",
       actualarrivaltime |-> Str("3600"), estimatedarrivaltime |-> Num(3000)],
      Str("AI505") }

Boards == UNION { [1..n -> BoardEntries] : n \in 0..MaxBoard }

\* AirportBoards: the request raises, or a JSON body comes back
BoardResponses ==
    {Raise, [error |-> "quota"]}
    \cup { [AirportBoardsResult |-> [arrivals |-> [flights |-> b]]] : b \in Boards }

\* FlightInfoStatus: the request raises, or a JSON body comes back
DetailResponses ==
    { Raise,
      [error |-> "unknown ident"],
      [FlightInfoStatusResult |->
          [origin |-> Str("VABB"), filed_departuretime |-> Num(600),
           actualdeparturetime |-> Num(900)]],
      [FlightInfoStatusResult |-> [filed_departuretime |-> Num(600)]] }

\* onecall/timemachine: the request or the JSON decoding raises (network
\* error, timeout, body that is not JSON), or a JSON body comes back: a
\* reading, or the body of an HTTP error
WeatherReading ==
    [current |-> [weather |-> << [main |-> "Clear", description |-> "clear sky"] >>,
                  temp |-> Num(25), wind_speed |-> Num(3)]]
WeatherErrorBody == [cod |-> Num(401), message |-> "Invalid API key"]
WeatherResponses == {Raise, WeatherReading, WeatherErrorBody}

----------------------------------------------------------------------------
(* FlightDataCollector *)

Registered(code) ==
    IF IsStr(code)
    THEN {k \in 1..Len(INDIAN_AIRPORTS) : INDIAN_AIRPORTS[k].icao = code.v}
    ELSE {}

\* INDIAN_AIRPORTS.get(code, {})
Lookup(code) ==
    IF Registered(code) = {} THEN <<>>
    ELSE INDIAN_AIRPORTS[CHOOSE k \in Registered(code) : TRUE].coord

\* origin + dest / 2 in place of (origin + dest) / 2
get_midpoint_precedence(origin_icao, dest_icao) ==
    LET origin == Lookup(origin_icao)
        dest == Lookup(dest_icao)
    IN [lat |-> Rat(2 * Get(origin, "lat", 0) + Get(dest, "lat", 0), 2),
        lon |-> Rat(2 * Get(origin, "lon", 0) + Get(dest, "lon", 0), 2)]

get_midpoint(origin_icao, dest_icao) ==
    LET origin == Lookup(origin_icao)
        dest == Lookup(dest_icao)
    IN [lat |-> Rat(Get(origin, "lat", 0) + Get(dest, "lat", 0), 2),
        lon |-> Rat(Get(origin, "lon", 0) + Get(dest, "lon", 0), 2)]

\* datetime.fromtimestamp of a number: the naive local time, in seconds
fromtimestamp(ts) == ts.v + tz

\* departure + (arrival - departure) / 2: an exact number of half seconds
MidTime(departure_time, arrival_time) ==
    Rat(2 * departure_time + (arrival_time - departure_time), 2)

\* datetime.date(): the local calendar day
DateOf(time) == time.num \div (time.den * 86400)

\* str() of a code inside the f-string
Format(code) == IF IsStr(code) THEN code.v ELSE "None"

\* the key built from flight_time in place of flight_time.date()
CacheKeyExactTime(origin, destination, flight_time) ==
    <<Format(origin), Format(destination), flight_time.num>>

\* f"{origin}-{destination}-{flight_time.date()}": codes hold no dash
CacheKey(origin, destination, flight_time) ==
    <<Format(origin), Format(destination), DateOf(flight_time)>>

Store(cache, key, value) ==
    [k \in DOMAIN cache \cup {key} |-> IF k = key THEN value ELSE cache[k]]

\* resp is what the weather service would answer if it were asked
get_route_weather(cache, origin, destination, flight_time, resp) ==
    LET cache_key == CacheKey(origin, destination, flight_time)
    IN IF cache_key \in DOMAIN cache
       THEN [ret |-> cache[cache_key], cache |-> cache, called |-> FALSE,
             key |-> cache_key, resp |-> None]
       ELSE IF resp = Raise
            THEN [ret |-> None, cache |-> cache, called |-> TRUE,
                  key |-> cache_key, resp |-> resp]
            ELSE [ret |-> resp, cache |-> Store(cache, cache_key, resp),
                  called |-> TRUE, key |-> cache_key, resp |-> resp]

\* resp is the answer of the tracking service
get_flight_details(resp) ==
    IF resp = Raise THEN None ELSE Get(resp, "FlightInfoStatusResult", <<>>)

NoQuery == [asked |-> FALSE, origin |-> None, destination |-> None,
            flight_time |-> Rat(0, 1), called |-> FALSE, key |-> <<>>,
            resp |-> None, ret |-> None]

\* route_weather['current']['weather'][0] can be read
ReadingShape(w) ==
    /\ HasKey(w, "current")
    /\ HasKey(w.current, "weather")
    /\ Len(w.current.weather) > 0
    /\ HasKey(w.current.weather[1], "main")
    /\ HasKey(w.current.weather[1], "description")
    /\ HasKey(w.current, "temp")
    /\ HasKey(w.current, "wind_speed")

\* // in place of /
DelayFloorDivision(flight) ==
    Rat((flight.actualarrivaltime.v - flight.estimatedarrivaltime.v) \div 60, 1)
\* (flight['actualarrivaltime'] - flight['estimatedarrivaltime']) / 60
DelayMinutes(flight) ==
    Rat(flight.actualarrivaltime.v - flight.estimatedarrivaltime.v, 60)

Record(flight, airport_icao, details, departure_time, route_weather) ==
    [flight_number |-> flight.ident,
     airline |-> Get(flight, "operator", "Unknown"),
     origin |-> Get(details, "origin", None),
     destination |-> airport_icao,
     scheduled_departure |-> departure_time,
     actual_departure |-> fromtimestamp(Get(details, "actualdeparturetime", Num(0))),
     scheduled_arrival |-> fromtimestamp(flight.estimatedarrivaltime),
     actual_arrival |-> fromtimestamp(flight.actualarrivaltime),
     delay_minutes |-> DelayMinutes(flight),
     aircraft |-> Get(flight, "aircrafttype", "Unknown"),
     route_weather |-> IF Truthy(route_weather)
                       THEN route_weather.current.weather[1].main ELSE "Unknown",
     route_weather_desc |-> IF Truthy(route_weather)
                            THEN route_weather.current.weather[1].description
                            ELSE "Unknown",
     route_temp |-> IF Truthy(route_weather) THEN route_weather.current.temp ELSE None,
     route_wind |-> IF Truthy(route_weather) THEN route_weather.current.wind_speed
                    ELSE None]

\* the result of process_flight: ret is the record or None; raised tells that
\* an exception left the function; query is the get_route_weather call made
Outcome(ret, raised, cache, query) ==
    [ret |-> ret, raised |-> raised, cache |-> cache, query |-> query]

process_flight(flight, airport_icao, cache, dresp, wresp) ==
    IF ~IsDict(flight)
    THEN \* flight['ident'] raises, and so does flight.get in the handler
         Outcome(None, TRUE, cache, NoQuery)
    ELSE IF ~HasKey(flight, "ident")
    THEN Outcome(None, FALSE, cache, NoQuery)
    ELSE LET details == get_flight_details(dresp) IN
    IF ~Truthy(details)
    THEN Outcome(None, FALSE, cache, NoQuery)
    ELSE IF \/ ~IsNum(Get(details, "filed_departuretime", Num(0)))
            \/ ~HasKey(flight, "actualarrivaltime")
            \/ ~IsNum(flight.actualarrivaltime)
    THEN Outcome(None, FALSE, cache, NoQuery)
    ELSE LET departure_time == fromtimestamp(Get(details, "filed_departuretime", Num(0)))
             arrival_time == fromtimestamp(flight.actualarrivaltime)
             flight_time == MidTime(departure_time, arrival_time)
             w == get_route_weather(cache, Get(details, "origin", None),
                                    Str(airport_icao), flight_time, wresp)
             query == [asked |-> TRUE, origin |-> Get(details, "origin", None),
                       destination |-> Str(airport_icao),
                       flight_time |-> flight_time, called |-> w.called,
                       key |-> w.key, resp |-> w.resp, ret |-> w.ret]
         IN IF \/ ~IsNum(Get(details, "actualdeparturetime", Num(0)))
               \/ ~HasKey(flight, "estimatedarrivaltime")
               \/ ~IsNum(flight.estimatedarrivaltime)
               \/ (Truthy(w.ret) /\ ~ReadingShape(w.ret))
            THEN Outcome(None, FALSE, w.cache, query)
            ELSE Outcome(Record(flight, airport_icao, details, departure_time, w.ret),
                         FALSE, w.cache, query)

----------------------------------------------------------------------------
(* collect_data, one step per external request *)

Icao == INDIAN_AIRPORTS[icaoIdx].icao

\* response.json().get("AirportBoardsResult", {}).get("arrivals", {}).get("flights", [])
BoardFlights(resp) ==
    Get(Get(Get(resp, "AirportBoardsResult", <<>>), "arrivals", <<>>), "flights", <<>>)

BoardEvent(ok, board) == [e |-> "board", icao |-> Icao, ok |-> ok, flights |-> board]
SleepEvent == [e |-> "sleep", icao |-> Icao, ok |-> TRUE, flights |-> <<>>]
ErrorEvent == [e |-> "error", icao |-> Icao, ok |-> FALSE, flights |-> <<>>]

\* the board request of one iteration raises: except, continue
AirportBoardFails ==
    /\ pc = "airport"
    /\ icaoIdx <= Len(INDIAN_AIRPORTS)
    /\ events' = events \o <<BoardEvent(FALSE, <<>>), ErrorEvent>>
    /\ icaoIdx' = icaoIdx + 1
    /\ UNCHANGED <<pc, flights, flightIdx, all_flights, weather_cache, sink, plog>>

\* the board request of one iteration answers
AirportBoard ==
    /\ pc = "airport"
    /\ icaoIdx <= Len(INDIAN_AIRPORTS)
    /\ \E resp \in BoardResponses \ {Raise} :
          /\ Len(plog) + Len(BoardFlights(resp)) <= MaxFlights
          /\ flights' = BoardFlights(resp)
          /\ events' = Append(events, BoardEvent(TRUE, BoardFlights(resp)))
    /\ flightIdx' = 1
    /\ pc' = "flights"
    /\ UNCHANGED <<icaoIdx, all_flights, weather_cache, sink, plog>>

\* one iteration of the loop over the board
ProcessFlight ==
    /\ pc = "flights"
    /\ flightIdx <= Len(flights)
    /\ \E dresp \in DetailResponses, wresp \in WeatherResponses :
          LET flight == flights[flightIdx]
              processed == process_flight(flight, Icao, weather_cache, dresp, wresp)
          IN /\ weather_cache' = processed.cache
             /\ plog' = Append(plog, [icao |-> Icao, airport |-> icaoIdx,
                                      k |-> flightIdx, flight |-> flight,
                                      ret |-> processed.ret,
                                      raised |-> processed.raised,
                                      query |-> processed.query])
             /\ IF processed.raised
                THEN \* the handler of the airport's try: continue
                     /\ events' = Append(events, ErrorEvent)
                     /\ icaoIdx' = icaoIdx + 1
                     /\ pc' = "airport"
                     /\ UNCHANGED <<flightIdx, all_flights>>
                ELSE /\ all_flights' = IF Truthy(processed.ret)
                                       THEN Append(all_flights, processed.ret)
                                       ELSE all_flights
                     /\ flightIdx' = flightIdx + 1
                     /\ UNCHANGED <<events, icaoIdx, pc>>
    /\ UNCHANGED <<flights, sink>>

\* time.sleep(2) after the last flight of the board
Sleep ==
    /\ pc = "flights"
    /\ flightIdx > Len(flights)
    /\ events' = Append(events, SleepEvent)
    /\ icaoIdx' = icaoIdx + 1
    /\ pc' = "airport"
    /\ UNCHANGED <<flights, flightIdx, all_flights, weather_cache, sink, plog>>

\* after the loop: DataFrame(all_flights).to_excel(filename)
SaveToExcel ==
    /\ pc = "airport"
    /\ icaoIdx > Len(INDIAN_AIRPORTS)
    /\ sink' = Append(sink, all_flights)
    /\ pc' = "done"
    /\ UNCHANGED <<icaoIdx, flights, flightIdx, all_flights, weather_cache, events, plog>>

IdleMid == mid_in = <<>> /\ mid_out = <<>>
IdleTrain == predictor = <<>> /\ nobj = 0 /\ ntrain = 0 /\ files = <<>>
IdleCollect ==
    /\ pc = "idle" /\ icaoIdx = 0 /\ flights = <<>> /\ flightIdx = 0
    /\ all_flights = <<>> /\ weather_cache = <<>> /\ sink = <<>>
    /\ events = <<>> /\ plog = <<>>

InitCollect ==
    /\ INDIAN_AIRPORTS \in Registries
    /\ tz \in UtcOffsets
    /\ pc = "airport"
    /\ icaoIdx = 1
    /\ flights = <<>>
    /\ flightIdx = 1
    /\ all_flights = <<>>
    /\ weather_cache = <<>>
    /\ sink = <<>>
    /\ events = <<>>
    /\ plog = <<>>
    /\ IdleMid
    /\ IdleTrain

NextCollect ==
    \/ (AirportBoardFails /\ UNCHANGED <<INDIAN_AIRPORTS, tz, midVars, trainVars>>)
    \/ (AirportBoard /\ UNCHANGED <<INDIAN_AIRPORTS, tz, midVars, trainVars>>)
    \/ (ProcessFlight /\ UNCHANGED <<INDIAN_AIRPORTS, tz, midVars, trainVars>>)
    \/ (Sleep /\ UNCHANGED <<INDIAN_AIRPORTS, tz, midVars, trainVars>>)
    \/ (SaveToExcel /\ UNCHANGED <<INDIAN_AIRPORTS, tz, midVars, trainVars>>)

SpecCollect == InitCollect /\ [][NextCollect]_vars

----------------------------------------------------------------------------
(* The route midpoint as a function of two codes *)

Codes == {Str("VIDP"), Str("VABB"), Str("VOMM"), Str("VOCI"), Str("XXXX"), None}

\* the coordinates of a code: a missing entry or field counts as 0
Coordinates(code) ==
    [lat |-> Rat(Get(Lookup(code), "lat", 0), 1),
     lon |-> Rat(Get(Lookup(code), "lon", 0), 1)]

Midpoint ==
    /\ mid_out = <<>>
    /\ mid_out' = [ab |-> get_midpoint(mid_in[1], mid_in[2]),
                   ba |-> get_midpoint(mid_in[2], mid_in[1]),
                   aa |-> get_midpoint(mid_in[1], mid_in[1])]
    /\ UNCHANGED mid_in

InitMid ==
    /\ INDIAN_AIRPORTS \in Registries
    /\ tz = 0
    /\ mid_in \in Codes \X Codes
    /\ mid_out = <<>>
    /\ IdleCollect
    /\ IdleTrain

NextMid == Midpoint /\ UNCHANGED <<INDIAN_AIRPORTS, tz, collectVars, trainVars>>

SpecMid == InitMid /\ [][NextMid]_vars

----------------------------------------------------------------------------
(* train.py: EnhancedDelayPredictor and the three joblib files *)

\* what the dataset read by __init__ lets train_models do: fit both models,
\* fail at the second train_test_split (no delayed row: clf is already
\* assigned), or fail at the first one (nothing assigned)
Datasets == {"ok", "no_delayed", "empty"}

\* __init__: read_excel, then preprocess_data fits the encoders
Construct ==
    /\ nobj < MaxObjects
    /\ nobj' = nobj + 1
    /\ \E data \in Datasets :
          predictor' = [data |-> data, encoders |-> [obj |-> nobj + 1]]
    /\ UNCHANGED <<ntrain, files>>

train_models ==
    /\ predictor # <<>>
    /\ ntrain < MaxTrains
    /\ ntrain' = ntrain + 1
    /\ predictor' =
          LET fitted == [obj |-> predictor.encoders.obj, train |-> ntrain + 1]
              withClf == Store(predictor, "clf", fitted)
          IN CASE predictor.data = "empty" -> predictor
               [] predictor.data = "no_delayed" -> withClf
               [] OTHER -> Store(withClf, "reg", fitted)
    /\ UNCHANGED <<nobj, files>>

\* the files after the three dumps in order, the first `completed` of which
\* are carried out; a dump is not reached once an attribute is missing
RECURSIVE Dumps(_, _, _, _)
Dumps(obj, disk, attrs, completed) ==
    IF attrs = <<>> \/ completed = 0 \/ Head(attrs) \notin DOMAIN obj
    THEN disk
    ELSE Dumps(obj, Store(disk, Head(attrs), obj[Head(attrs)]), Tail(attrs),
               completed - 1)

\* save_models; a joblib.dump may raise (disk full, no permission)
save_models ==
    /\ predictor # <<>>
    /\ \E completed \in 0..3 :
          files' = Dumps(predictor, files, <<"clf", "reg", "encoders">>, completed)
    /\ UNCHANGED <<predictor, nobj, ntrain>>

InitTrain ==
    /\ INDIAN_AIRPORTS = <<>>
    /\ tz = 0
    /\ predictor = <<>>
    /\ nobj = 0
    /\ ntrain = 0
    /\ files = <<>>
    /\ IdleCollect
    /\ IdleMid

NextTrain ==
    \/ (Construct /\ UNCHANGED <<INDIAN_AIRPORTS, tz, collectVars, midVars>>)
    \/ (train_models /\ UNCHANGED <<INDIAN_AIRPORTS, tz, collectVars, midVars>>)
    \/ (save_models /\ UNCHANGED <<INDIAN_AIRPORTS, tz, collectVars, midVars>>)

SpecTrain == InitTrain /\ [][NextTrain]_vars

----------------------------------------------------------------------------
(* Properties *)

\* the collaborator failed to deliver a reading (spec 4.1 and 7(a): network
\* or HTTP failure, malformed response, timeout)
WeatherFailed(resp) == resp # WeatherReading

Asked == {i \in 1..Len(plog) : plog[i].query.asked}

\* i and j are two consecutive get_route_weather queries
ConsecutiveQueries(i, j) ==
    /\ i \in Asked /\ j \in Asked /\ i < j
    /\ \A k \in Asked : ~(i < k /\ k < j)

\* the same origin, the same destination, the same calendar day
SameRouteAndDay(q1, q2) ==
    /\ q1.origin = q2.origin
    /\ q1.destination = q2.destination
    /\ q1.flight_time.num \div (q1.flight_time.den * 86400)
         = q2.flight_time.num \div (q2.flight_time.den * 86400)

\* C1 as stated: of two consecutive queries with the same origin, the same
\* destination and timestamps on the same calendar day, the second one makes
\* no call to the weather service.
C1_SecondQueryHitsCache ==
    \A i, j \in 1..Len(plog) :
        (ConsecutiveQueries(i, j) /\ SameRouteAndDay(plog[i].query, plog[j].query))
            => ~plog[j].query.called

\* C1 amended: of two such queries the second one calls the weather service
\* exactly when the first one called it and the call raised; in every other
\* case the second one is served from the cache, with what the first returned.
C1_SecondQueryHitsCacheUnlessFirstRaised ==
    \A i, j \in 1..Len(plog) :
        (ConsecutiveQueries(i, j) /\ SameRouteAndDay(plog[i].query, plog[j].query))
            => LET q1 == plog[i].query
                   q2 == plog[j].query
               IN /\ q2.called <=> (q1.called /\ q1.resp = Raise)
                  /\ ~q2.called => q2.ret = q1.ret

\* two queries of one route and day at different times of the day, the first
\* one answered by the service, the second one served from the cache
C1_Witness ==
    \E i, j \in 1..Len(plog) :
        /\ ConsecutiveQueries(i, j)
        /\ SameRouteAndDay(plog[i].query, plog[j].query)
        /\ plog[i].query.flight_time # plog[j].query.flight_time
        /\ plog[i].query.called /\ plog[i].query.resp # Raise
        /\ ~plog[j].query.called

\* C2 as stated: a flight whose weather request failed (network error,
\* malformed response, timeout) gets None from the lookup, and process_flight
\* returns for it a record with route_weather "Unknown" and no temperature
\* or wind, which is appended to the batch.
C2_WeatherFailureGivesUnknownRecord ==
    \A i \in 1..Len(plog) :
        (plog[i].query.called /\ WeatherFailed(plog[i].query.resp))
            => /\ plog[i].query.ret = None
               /\ IsDict(plog[i].ret)
               /\ HasKey(plog[i].ret, "route_weather")
               /\ plog[i].ret.route_weather = "Unknown"
               /\ plog[i].ret.route_temp = None
               /\ plog[i].ret.route_wind = None
               /\ \E k \in 1..Len(all_flights) : all_flights[k] = plog[i].ret

BoardEvents == {i \in 1..Len(events) : events[i].e = "board"}
RegistryCodes == [k \in 1..Len(INDIAN_AIRPORTS) |-> INDIAN_AIRPORTS[k].icao]
RequestedCodes == [k \in 1..Cardinality(BoardEvents) |->
    events[CHOOSE i \in BoardEvents :
              Cardinality({m \in BoardEvents : m <= i}) = k].icao]

\* C4 as stated: when collect_data has returned, every airport of the
\* registry was asked for its board once, in registry order; every flight
\* object of every board that was fetched went through process_flight and its
\* record, if any, is in the result; and the result was written once, at the
\* end.
C4_AllAirportsCollectedAndSavedOnce ==
    /\ pc # "done" => sink = <<>>
    /\ pc = "done" =>
          /\ RequestedCodes = RegistryCodes
          /\ sink = <<all_flights>>
          /\ \A i \in BoardEvents : events[i].ok =>
                \A k \in {f \in 1..Len(events[i].flights) : IsDict(events[i].flights[f])} :
                    \E n \in 1..Len(plog) :
                        /\ plog[n].icao = events[i].icao
                        /\ plog[n].k = k
                        /\ IsDict(plog[n].ret) =>
                              \E m \in 1..Len(all_flights) : all_flights[m] = plog[n].ret

\* C5 as stated: process_flight lets no exception out: a flight without
\* details or with a field that is missing or of the wrong type gives None
\* for that flight, and the flights after it on the board are processed.
C5_FlightFailureNeverAborts ==
    /\ \A n \in 1..Len(plog) : ~plog[n].raised
    /\ \A i \in BoardEvents : (events[i].ok /\ pc = "done")
          => \A k \in 1..Len(events[i].flights) :
                \E n \in 1..Len(plog) : plog[n].icao = events[i].icao /\ plog[n].k = k

\* C9 as stated: between the board requests of two consecutive airports
\* there is one pause, whether the earlier airport succeeded or failed.
C9_OnePauseBetweenBoardRequests ==
    \A i, j \in BoardEvents :
        (i < j /\ \A m \in BoardEvents : ~(i < m /\ m < j))
            => Cardinality({m \in i..j : events[m].e = "sleep"}) = 1

\* C10 as stated: every key of the cache was stored by a call to the weather
\* service that did not fail, with the value that call returned; a failed
\* lookup stores nothing.
C10_CacheHoldsOnlySuccessfulLookups ==
    \A key \in DOMAIN weather_cache :
        \E n \in 1..Len(plog) :
            /\ plog[n].query.called
            /\ plog[n].query.key = key
            /\ ~WeatherFailed(plog[n].query.resp)
            /\ weather_cache[key] = plog[n].query.resp

\* C8: the midpoint of A and B is the midpoint of B and A, and the midpoint
\* of A and A is the coordinates of A, a missing code or field counting as 0.
C8_MidpointSymmetricAndIdempotent ==
    mid_out # <<>> =>
        /\ mid_out.ab = mid_out.ba
        /\ mid_out.aa = Coordinates(mid_in[1])

\* a registered and an unregistered code whose midpoint is not whole
C8_Witness ==
    /\ mid_out # <<>>
    /\ Registered(mid_in[1]) # {}
    /\ Registered(mid_in[2]) = {}
    /\ mid_out.ab.lat.den = 2
    /\ mid_out.ab # mid_out.aa

MatchedSet ==
    /\ DOMAIN files = {"clf", "reg", "encoders"}
    /\ files.clf = files.reg
    /\ files.clf.obj = files.encoders.obj

\* C7 as stated: the three files are either all absent or all written from
\* one training run of one predictor.
C7_ArtifactsWrittenAtomically == files = <<>> \/ MatchedSet

====
